---- MODULE Spec2Model ----
(***************************************************************************)
(* gtfs-to-postgres: the per-dataset ingestion pipeline of GtfsDataset     *)
(* (downloadGtfs, loadTables) and the main loop that drives it, run by     *)
(* several overlapping process invocations against one PostgreSQL store    *)
(* and one remote feed per dataset.                                        *)
(*                                                                         *)
(* One action is one await of the code together with the synchronous code  *)
(* that follows it up to the next await.  A process invocation ("run") is  *)
(* one execution of the main loop; every dataset of a run gets its own     *)
(* pool and therefore its own database session <<run, dataset>>.           *)
(***************************************************************************)
EXTENDS Integers, Sequences, FiniteSets, TLC

\* ---------------------------------------------------------------- bounds
NumRuns == 2        \* overlapping invocations of the program (cron runs)
MaxVersion == 3     \* versions of a feed the remote publishes
MaxTime == 2        \* distinct values Date.now() can return

Runs == 1..NumRuns
Versions == 1..MaxVersion
Times == 1..MaxTime

\* ------------------------------------------------------- program constants
key1 == 1195791443  \* 0x47465453, "GTFS"

\* The datasets of Endpoints.ts the model follows.
Datasets == {"sydneycomplete", "lightrailcbdandsoutheast"}

\* sha1(name).readInt32BE(0) of the configured names.
key2(name) ==
    CASE name = "sydneycomplete" -> 2004933661
      [] name = "lightrailcbdandsoutheast" -> 0 - 409759524

\* The configured names are lower-case alphanumerics: slugify leaves them as
\* they are (no run of other characters to replace, no underscore to strip).
slugify(x) == x

\* A schema name: gtfs_{slug}, with tmp = 0, or gtfs_{slug}_tmp_{Date.now()}.
SchemaName(slug, suffix) == [schema |-> slug, tmp |-> suffix]

gtfsSchema(name) == SchemaName(slugify(name), 0)

LockKey(name) == <<key1, key2(name)>>

\* JavaScript's two absent values are distinct under ===.
Null == "null"
Undefined == "undefined"

\* Values the remote can send in the etag / last-modified headers.
ETags == {"e1", "e2"}
Stamps == {"t1"}
Statuses == {200, 304, 500}

\* A database session: one per (run, dataset), pool of one GtfsDataset.
Session(r, d) == <<r, d>>

VARIABLES
    endpoints,       \* the list the main loop iterates
    advisoryLocks,   \* PostgreSQL's advisory lock table: set of <<key, session>>
    metaTable,       \* gtfsmeta.feed_meta exists
    feed_meta,       \* rows of gtfsmeta.feed_meta
    schemas,         \* committed schemas: set of [name, tables]
    remoteVersion,   \* the version each remote feed currently serves
    pc,              \* where each run is
    idx,             \* index into endpoints of the dataset a run is at
    tmp,             \* the temporary directory of the current call
    zip,             \* version of the archive in the temporary directory, 0: none
    etag, lastModified,        \* what downloadGtfs read from the ledger
    res,             \* the response of fetch
    ret,             \* how downloadGtfs / loadTables ended
    stage,           \* the stage of the pipeline a run is in
    error,           \* the error caught or thrown by the current call
    tmpSchema,       \* the Date.now() suffix of the staging schema, 0: none
    tx,              \* each session's open transaction
    dir,             \* the opened archive: its entries
    fi,              \* position of the for loops over dir.files
    fileHeaders      \* entry path -> matched columns

ltVars == <<tmpSchema, tx, dir, fi, fileHeaders>>
dlVars == <<tmp, zip, etag, lastModified, res, ret, stage, error, ltVars>>
dbVars == <<advisoryLocks, metaTable, feed_meta, schemas>>
vars == <<endpoints, advisoryLocks, metaTable, feed_meta, schemas, remoteVersion,
          pc, idx, tmp, zip, etag, lastModified, res, ret, stage, error,
          tmpSchema, tx, dir, fi, fileHeaders>>

\* No transaction open; an open one holds the names it has dropped and the
\* schemas it has created or renamed, none of them visible to other sessions.
NoTx == [open |-> FALSE, drop |-> {}, put |-> {}]

NoRes == [status |-> 0, newEtag |-> Null, newLastModified |-> Null,
          body |-> FALSE, version |-> 0]

Dataset(r) == endpoints[idx[r]]

\* ------------------------------------------------------------ PostgreSQL

\* A lock function that grants the key whoever holds it.
TryAdvisoryLockShared(locks, key, s) ==
    [ok |-> TRUE, locks |-> locks \cup {<<key, s>>}]

\* SELECT PG_TRY_ADVISORY_LOCK(k1, k2): granted unless another session holds
\* the key; never waits.
TryAdvisoryLock(locks, key, s) ==
    IF \E l \in locks : l[1] = key /\ l[2] # s
    THEN [ok |-> FALSE, locks |-> locks]
    ELSE [ok |-> TRUE, locks |-> locks \cup {<<key, s>>}]

\* SELECT PG_ADVISORY_UNLOCK(k1, k2): releases the session's own lock; a
\* session that does not hold it gets false and a warning, no error.
AdvisoryUnlock(locks, key, s) == locks \ {<<key, s>>}

\* A session that ends gives up every advisory lock it holds.
SessionsEnd(locks, r) == {l \in locks : l[2][1] # r}

Holds(r, d) == <<LockKey(d), Session(r, d)>> \in advisoryLocks

\* A plain INSERT, with no conflict clause and no key to conflict on.
InsertOnly(rows, d, e, lm) ==
    rows \cup {[dataset |-> d, etag |-> e, last_modified |-> lm]}

\* INSERT ... ON CONFLICT (dataset) DO UPDATE
Upsert(rows, d, e, lm) ==
    {row \in rows : row.dataset # d}
        \cup {[dataset |-> d, etag |-> e, last_modified |-> lm]}

RowsOf(d) == {row \in feed_meta : row.dataset = d}

\* rows[0]?.col ?? undefined
FirstOrUndefined(rows, col) ==
    IF rows = {} THEN Undefined
    ELSE LET row == CHOOSE x \in rows : TRUE
         IN IF row[col] = Null THEN Undefined ELSE row[col]

\* -------------------------------------------------------------- main loop

Init ==
    /\ endpoints = <<"sydneycomplete">>
    /\ advisoryLocks = {}
    /\ metaTable = FALSE
    /\ feed_meta = {}
    /\ schemas = {}
    /\ remoteVersion = [d \in Datasets |-> 1]
    /\ pc = [r \in Runs |-> "loop"]
    /\ idx = [r \in Runs |-> 1]
    /\ tmp = [r \in Runs |-> "none"]
    /\ zip = [r \in Runs |-> 0]
    /\ etag = [r \in Runs |-> Undefined]
    /\ lastModified = [r \in Runs |-> Undefined]
    /\ res = [r \in Runs |-> NoRes]
    /\ ret = [r \in Runs |-> "none"]
    /\ stage = [r \in Runs |-> "main"]
    /\ error = [r \in Runs |-> "none"]
    /\ tmpSchema = [r \in Runs |-> 0]
    /\ tx = [r \in Runs |-> NoTx]
    /\ dir = [r \in Runs |-> <<>>]
    /\ fi = [r \in Runs |-> 0]
    /\ fileHeaders = [r \in Runs |-> {}]

\* for (... of endpoints): the next dataset; new GtfsDataset, dbClient().
NextDataset(r) ==
    /\ pc[r] = "loop"
    /\ idx[r] <= Len(endpoints)
    /\ pc' = [pc EXCEPT ![r] = "acquireLock"]
    /\ tmp' = [tmp EXCEPT ![r] = "none"]
    /\ zip' = [zip EXCEPT ![r] = 0]
    /\ etag' = [etag EXCEPT ![r] = Undefined]
    /\ lastModified' = [lastModified EXCEPT ![r] = Undefined]
    /\ res' = [res EXCEPT ![r] = NoRes]
    /\ ret' = [ret EXCEPT ![r] = "none"]
    /\ error' = [error EXCEPT ![r] = "none"]
    /\ stage' = [stage EXCEPT ![r] = "fetch"]
    /\ UNCHANGED <<endpoints, dbVars, remoteVersion, idx, ltVars>>

\* process.exit(0) after the last dataset: the run's sessions end.
ProcessExit(r) ==
    /\ pc[r] = "loop"
    /\ idx[r] > Len(endpoints)
    /\ pc' = [pc EXCEPT ![r] = "exited"]
    /\ advisoryLocks' = SessionsEnd(advisoryLocks, r)
    /\ UNCHANGED <<endpoints, metaTable, feed_meta, schemas, remoteVersion, idx, dlVars>>

\* An error leaves the async main function: nothing catches it, the process
\* ends and with it the run's sessions.
UnhandledRejection(r) ==
    /\ pc[r] \in {"threw", "loadThrew"}
    /\ pc' = [pc EXCEPT ![r] = "dead"]
    /\ advisoryLocks' = SessionsEnd(advisoryLocks, r)
    /\ tx' = [tx EXCEPT ![r] = NoTx]
    /\ ret' = [ret EXCEPT ![r] = "none"]
    /\ error' = [error EXCEPT ![r] = "none"]
    /\ tmpSchema' = [tmpSchema EXCEPT ![r] = 0]
    /\ UNCHANGED <<endpoints, metaTable, feed_meta, schemas, remoteVersion, idx,
                   tmp, zip, etag, lastModified, res, dir, fi, fileHeaders, stage>>

\* The remote publishes the next version of a feed.
Publish(d) ==
    /\ remoteVersion[d] < MaxVersion
    /\ remoteVersion' = [remoteVersion EXCEPT ![d] = @ + 1]
    /\ UNCHANGED <<endpoints, dbVars, pc, idx, dlVars>>

\* ------------------------------------------------------------ downloadGtfs

\* The call's locals go out of scope when it ends.
EndOfCall(r) ==
    /\ etag' = [etag EXCEPT ![r] = Undefined]
    /\ lastModified' = [lastModified EXCEPT ![r] = Undefined]
    /\ res' = [res EXCEPT ![r] = NoRes]

\* The call ends by throwing e to its caller.
Throw(r, e) ==
    /\ pc' = [pc EXCEPT ![r] = "threw"]
    /\ ret' = [ret EXCEPT ![r] = "error"]
    /\ error' = [error EXCEPT ![r] = e]
    /\ EndOfCall(r)

\* An await inside the try block rejects, or the block throws: control goes
\* to the catch block, where the block's own constants (rows, etag,
\* lastModified, res) are out of scope.
Catch(r, e) ==
    /\ pc' = [pc EXCEPT ![r] = "catch"]
    /\ error' = [error EXCEPT ![r] = e]
    /\ EndOfCall(r)

LockError == "Unable to obtain lock, another update is running"
DownloadError == "Download failed"
\* Any error a query, the file system, the network or a stream raises.
OtherError == "Error"

\* A call that ignores the refusal of the lock and goes on.
acquireLockProceeds(r) ==
    /\ pc[r] = "acquireLock"
    /\ advisoryLocks' = TryAdvisoryLock(advisoryLocks, LockKey(Dataset(r)),
                                        Session(r, Dataset(r))).locks
    /\ pc' = [pc EXCEPT ![r] = "createMeta"]
    /\ UNCHANGED <<endpoints, metaTable, feed_meta, schemas, remoteVersion, idx, dlVars>>

\* await this.acquireLock(client)
acquireLock(r) ==
    /\ pc[r] = "acquireLock"
    /\ LET try == TryAdvisoryLock(advisoryLocks, LockKey(Dataset(r)),
                                  Session(r, Dataset(r)))
       IN /\ advisoryLocks' = try.locks
          /\ IF try.ok
             THEN /\ pc' = [pc EXCEPT ![r] = "createMeta"]
                  /\ UNCHANGED <<ret, error, etag, lastModified, res>>
             ELSE Throw(r, LockError)
    /\ UNCHANGED <<endpoints, metaTable, feed_meta, schemas, remoteVersion, idx,
                   tmp, zip, ltVars, stage>>

\* CREATE SCHEMA IF NOT EXISTS gtfsmeta; CREATE TABLE IF NOT EXISTS ...
\* The statement is outside the try block: its error leaves the call directly.
createMeta(r) ==
    /\ pc[r] = "createMeta"
    /\ \/ /\ metaTable' = TRUE
          /\ pc' = [pc EXCEPT ![r] = "mkdtemp"]
          /\ UNCHANGED <<ret, error, etag, lastModified, res>>
       \/ /\ Throw(r, OtherError)
          /\ UNCHANGED metaTable
    /\ UNCHANGED <<endpoints, advisoryLocks, feed_meta, schemas, remoteVersion, idx,
                   tmp, zip, ltVars, stage>>

\* const tmp = await fs.mkdtemp(...), also outside the try block.
mkdtemp(r) ==
    /\ pc[r] = "mkdtemp"
    /\ \/ /\ tmp' = [tmp EXCEPT ![r] = "dir"]
          /\ pc' = [pc EXCEPT ![r] = "selectMeta"]
          /\ UNCHANGED <<ret, error, etag, lastModified, res>>
       \/ /\ Throw(r, OtherError)
          /\ UNCHANGED tmp
    /\ UNCHANGED <<endpoints, dbVars, remoteVersion, idx, zip, ltVars, stage>>

\* SELECT etag, last_modified FROM gtfsmeta.feed_meta WHERE dataset=$1
selectMeta(r) ==
    /\ pc[r] = "selectMeta"
    /\ \/ /\ etag' = [etag EXCEPT ![r] = FirstOrUndefined(RowsOf(Dataset(r)), "etag")]
          /\ lastModified' = [lastModified EXCEPT
                                ![r] = FirstOrUndefined(RowsOf(Dataset(r)), "last_modified")]
          /\ pc' = [pc EXCEPT ![r] = "fetch"]
          /\ UNCHANGED <<error, res>>
       \/ Catch(r, OtherError)
    /\ UNCHANGED <<endpoints, dbVars, remoteVersion, idx, tmp, zip, ret, ltVars, stage>>

\* res.headers.get(h) || undefined
OrUndefined(h) == IF h \in {"", Null} THEN Undefined ELSE h

\* res.headers.get(h) || null
OrNull(h) == IF h = "" THEN Null ELSE h

\* res.ok
Ok(status) == status >= 200 /\ status <= 299

\* A test that looks at the status and the tag only.
NotModifiedTagOnly(status, e, newEtag, lm, newLastModified) ==
    status = 304 \/ e = newEtag

\* if (res.status === 304 || etag === newEtag || lastModified === newLastModified)
NotModified(status, e, newEtag, lm, newLastModified) ==
    status = 304 \/ e = newEtag \/ lm = newLastModified

\* What the remote can answer, whatever If-None-Match / If-Modified-Since the
\* request carried: any status, either header present, empty or missing,
\* with or without a body; a body is the version it serves.  (A missing body
\* is told apart only on a success status: !res.ok || !res.body.)
Responses(d) ==
    {response \in [status : Statuses,
                   newEtag : {OrNull(h) : h \in ETags \cup {"", Null}},
                   newLastModified : {OrNull(h) : h \in Stamps \cup {"", Null}},
                   body : BOOLEAN,
                   version : {remoteVersion[d]}] :
        response.body \/ Ok(response.status)}

\* Lines 114-119: what becomes of a response, given the cached values.
Classify(response, e, lm) ==
    IF NotModified(response.status, e, response.newEtag, lm, response.newLastModified)
    THEN "unchanged"
    ELSE IF ~Ok(response.status) \/ ~response.body
    THEN "failed"
    ELSE "download"

\* const res = await fetch(...) and the classification of the response.
fetch(r) ==
    /\ pc[r] = "fetch"
    /\ \/ \E response \in Responses(Dataset(r)) :
            LET class == Classify(response, etag[r], lastModified[r])
            IN IF class = "failed"
               THEN Catch(r, DownloadError)
               ELSE /\ res' = [res EXCEPT ![r] = response]
                    /\ pc' = [pc EXCEPT ![r] = IF class = "unchanged"
                                                THEN "unchangedRelease"
                                                ELSE "pipeline"]
                    /\ UNCHANGED <<error, etag, lastModified>>
       \/ Catch(r, OtherError)
    /\ UNCHANGED <<endpoints, dbVars, remoteVersion, idx, tmp, zip, ret, ltVars, stage>>

\* await this.releaseLock(client) on the not-modified path
unchangedRelease(r) ==
    /\ pc[r] = "unchangedRelease"
    /\ advisoryLocks' = AdvisoryUnlock(advisoryLocks, LockKey(Dataset(r)),
                                       Session(r, Dataset(r)))
    /\ pc' = [pc EXCEPT ![r] = "unchangedRm"]
    /\ UNCHANGED <<endpoints, metaTable, feed_meta, schemas, remoteVersion, idx, dlVars>>

\* A not-modified path that returns without removing the directory.
unchangedRmKeepsDir(r) ==
    /\ pc[r] = "unchangedRm"
    /\ pc' = [pc EXCEPT ![r] = "returned"]
    /\ ret' = [ret EXCEPT ![r] = "null"]
    /\ EndOfCall(r)
    /\ UNCHANGED <<endpoints, dbVars, remoteVersion, idx, tmp, zip, error, ltVars, stage>>

\* await fs.rm(tmp, { recursive: true, force: true }); return null
unchangedRm(r) ==
    /\ pc[r] = "unchangedRm"
    /\ tmp' = [tmp EXCEPT ![r] = "none"]
    /\ pc' = [pc EXCEPT ![r] = "returned"]
    /\ ret' = [ret EXCEPT ![r] = "null"]
    /\ EndOfCall(r)
    /\ UNCHANGED <<endpoints, dbVars, remoteVersion, idx, zip, error, ltVars, stage>>

\* A download that records the response in the ledger before it streams the
\* body to disk.
pipelineRecordsFirst(r) ==
    /\ pc[r] = "pipeline"
    /\ feed_meta' = Upsert(feed_meta, Dataset(r), res[r].newEtag, res[r].newLastModified)
    /\ \/ /\ tmp' = [tmp EXCEPT ![r] = "zip"]
          /\ zip' = [zip EXCEPT ![r] = res[r].version]
          /\ pc' = [pc EXCEPT ![r] = "upsertMeta"]
          /\ UNCHANGED <<error, etag, lastModified, res>>
       \/ /\ tmp' = [tmp EXCEPT ![r] = "partial"]
          /\ Catch(r, OtherError)
          /\ UNCHANGED zip
    /\ UNCHANGED <<endpoints, advisoryLocks, metaTable, schemas, remoteVersion, idx,
                   ret, ltVars, stage>>


\* await Pipeline(res.body, createWriteStream(zipPath))
pipeline(r) ==
    /\ pc[r] = "pipeline"
    /\ \/ /\ tmp' = [tmp EXCEPT ![r] = "zip"]
          /\ zip' = [zip EXCEPT ![r] = res[r].version]
          /\ pc' = [pc EXCEPT ![r] = "upsertMeta"]
          /\ UNCHANGED <<error, etag, lastModified, res>>
       \/ /\ tmp' = [tmp EXCEPT ![r] = "partial"]
          /\ Catch(r, OtherError)
          /\ UNCHANGED zip
    /\ UNCHANGED <<endpoints, dbVars, remoteVersion, idx, ret, ltVars, stage>>

\* INSERT INTO gtfsmeta.feed_meta ... ON CONFLICT (dataset) DO UPDATE ...
upsertMeta(r) ==
    /\ pc[r] = "upsertMeta"
    /\ \/ /\ feed_meta' = Upsert(feed_meta, Dataset(r), res[r].newEtag,
                                 res[r].newLastModified)
          /\ pc' = [pc EXCEPT ![r] = "downloadedRelease"]
          /\ UNCHANGED <<error, etag, lastModified, res>>
       \/ /\ Catch(r, OtherError)
          /\ UNCHANGED feed_meta
    /\ UNCHANGED <<endpoints, advisoryLocks, metaTable, schemas, remoteVersion, idx,
                   tmp, zip, ret, ltVars, stage>>

\* A downloaded path that returns with the lock still held.
downloadedKeepsLock(r) ==
    /\ pc[r] = "downloadedRelease"
    /\ pc' = [pc EXCEPT ![r] = "returned"]
    /\ ret' = [ret EXCEPT ![r] = "zipPath"]
    /\ EndOfCall(r)
    /\ UNCHANGED <<endpoints, dbVars, remoteVersion, idx,
                   tmp, zip, error, ltVars, stage>>


\* await this.releaseLock(client); return zipPath
downloadedRelease(r) ==
    /\ pc[r] = "downloadedRelease"
    /\ advisoryLocks' = AdvisoryUnlock(advisoryLocks, LockKey(Dataset(r)),
                                       Session(r, Dataset(r)))
    /\ pc' = [pc EXCEPT ![r] = "returned"]
    /\ ret' = [ret EXCEPT ![r] = "zipPath"]
    /\ EndOfCall(r)
    /\ UNCHANGED <<endpoints, metaTable, feed_meta, schemas, remoteVersion, idx,
                   tmp, zip, error, ltVars, stage>>

\* catch (e) { await this.releaseLock(client); throw e; }
catchRelease(r) ==
    /\ pc[r] = "catch"
    /\ advisoryLocks' = AdvisoryUnlock(advisoryLocks, LockKey(Dataset(r)),
                                       Session(r, Dataset(r)))
    /\ Throw(r, error[r])
    /\ UNCHANGED <<endpoints, metaTable, feed_meta, schemas, remoteVersion, idx,
                   tmp, zip, ltVars, stage>>

\* if (zipPath) ... else ...; GtfsClient.release(): on to the next dataset.
\* (loadTables is entered from here when a path was returned.)
upToDate(r) ==
    /\ pc[r] = "returned"
    /\ ret[r] = "null"
    /\ pc' = [pc EXCEPT ![r] = "loop"]
    /\ idx' = [idx EXCEPT ![r] = @ + 1]
    /\ ret' = [ret EXCEPT ![r] = "none"]
    /\ stage' = [stage EXCEPT ![r] = "main"]
    /\ UNCHANGED <<endpoints, dbVars, remoteVersion, tmp, zip, etag, lastModified,
                   res, error, ltVars>>

\* -------------------------------------------------------------- loadTables

\* The Table Specification (./Tables): archive entry -> table and its columns.
tables ==
    {[file |-> "stops.txt", name |-> "stops",
      columns |-> [stop_id |-> "CITEXT", stop_name |-> "CITEXT", stop_lat |-> "FLOAT"]],
     [file |-> "routes.txt", name |-> "routes",
      columns |-> [route_id |-> "CITEXT", route_short_name |-> "CITEXT"]]}

\* tables.find((x) => x.file === path)
Find(path) == {t \in tables : t.file = path}

\* The archive the remote serves as version v: entries in archive order, each
\* with the fields of its first line as split(",") yields them and the fields
\* of its data lines as they are written in the file.  The stops of the
\* archives have a name that is present but empty, unquoted or quoted ("").
\* Every third version has an entry the Table Specification names under a
\* header that shares no name with the entry's columns.
Archive(v) ==
    CASE v % 3 = 1 ->
           <<[path |-> "stops.txt",
              header |-> <<"stop_id", "\"stop_name\"", " stop_lat">>,
              lines |-> <<<<ToString(v), "", "-33.86">>>>],
             [path |-> "notes.txt", header |-> <<"note">>, lines |-> <<<<"n">>>>]>>
      [] v % 3 = 2 ->
           <<[path |-> "routes.txt",
              header |-> <<"route_short_name", "route_id">>,
              lines |-> <<<<"L1", ToString(v)>>>>],
             [path |-> "stops.txt",
              header |-> <<"stop_name", "stop_id">>,
              lines |-> <<<<"\"\"", ToString(v)>>>>]>>
      [] OTHER ->
           <<[path |-> "routes.txt",
              header |-> <<"route_id">>,
              lines |-> <<<<ToString(v)>>>>],
             [path |-> "stops.txt",
              header |-> <<"id", "name">>,
              lines |-> <<<<ToString(v), "">>>>]>>

\* name.trim().replace(/"/g, "") on the field names the archives use.
TrimUnquote(name) ==
    CASE name = "\"stop_name\"" -> "stop_name"
      [] name = " stop_lat" -> "stop_lat"
      [] OTHER -> name

\* header.split(",").map(...).filter((name) => tableColumns.has(name))
MatchColumns(header, tableColumns) ==
    SelectSeq([i \in 1..Len(header) |-> TrimUnquote(header[i])],
              LAMBDA name : name \in DOMAIN tableColumns)

\* The next entry at or after i that the Table Specification names
\* (if (!table) continue), or Len + 1.
NextEntry(files, i) ==
    IF \E j \in i..Len(files) : Find(files[j].path) # {}
    THEN CHOOSE j \in i..Len(files) :
           /\ Find(files[j].path) # {}
           /\ \A k \in i..(j - 1) : Find(files[k].path) = {}
    ELSE Len(files) + 1

\* `${this.gtfsSchema}_tmp_${Date.now()}`
TmpSchemaName(name, now) == SchemaName(slugify(name), now)

\* What a session sees: the committed schemas and its own transaction's work.
View(r) == {s \in schemas : s.name \notin tx[r].drop} \cup tx[r].put

Names(ss) == {s.name : s \in ss}

\* The names another session's open transaction has created, renamed to or
\* dropped: a statement that creates such a name waits for that transaction.
Pending(r) == UNION {tx[q].drop \cup Names(tx[q].put) : q \in Runs \ {r}}

\* The schemas another open transaction has dropped: dropping one of them
\* waits for that transaction.
Dropping(r) == UNION {tx[q].drop : q \in Runs \ {r}}

\* A commit that applies what the transaction created but not what it dropped.
CommitAddsOnly(ss, t) == ss \cup t.put

\* COMMIT: the transaction's work becomes the committed state at once.
Commit(ss, t) == {s \in ss : s.name \notin t.drop} \cup t.put

\* The staging schema as the session's transaction has it.
Staging(r) == CHOOSE s \in tx[r].put : s.name = TmpSchemaName(Dataset(r), tmpSchema[r])

\* An await of loadTables rejects: control goes to its catch block, where
\* the try block's own constants (dir, fileHeaders) are out of scope.
LoadCatch(r, e) ==
    /\ pc' = [pc EXCEPT ![r] = "rollback"]
    /\ error' = [error EXCEPT ![r] = e]
    /\ dir' = [dir EXCEPT ![r] = <<>>]
    /\ fi' = [fi EXCEPT ![r] = 0]
    /\ fileHeaders' = [fileHeaders EXCEPT ![r] = {}]

\* A main loop that loads whatever downloadGtfs returned.
beginWhateverReturned(r) ==
    /\ pc[r] = "returned"
    /\ \E now \in Times : tmpSchema' = [tmpSchema EXCEPT ![r] = now]
    /\ tx' = [tx EXCEPT ![r] = [NoTx EXCEPT !.open = TRUE]]
    /\ pc' = [pc EXCEPT ![r] = "createSchema"]
    /\ ret' = [ret EXCEPT ![r] = "none"]
    /\ stage' = [stage EXCEPT ![r] = "load"]
    /\ UNCHANGED <<endpoints, dbVars, remoteVersion, idx, tmp, zip, etag, lastModified,
                   res, error, dir, fi, fileHeaders>>


\* if (zipPath) await Gtfs.loadTables(GtfsClient, zipPath):
\* const tmpSchema = ...Date.now(); await client.query("BEGIN")
begin(r) ==
    /\ pc[r] = "returned"
    /\ ret[r] = "zipPath"
    /\ \E now \in Times : tmpSchema' = [tmpSchema EXCEPT ![r] = now]
    /\ tx' = [tx EXCEPT ![r] = [NoTx EXCEPT !.open = TRUE]]
    /\ pc' = [pc EXCEPT ![r] = "createSchema"]
    /\ ret' = [ret EXCEPT ![r] = "none"]
    /\ stage' = [stage EXCEPT ![r] = "load"]
    /\ UNCHANGED <<endpoints, dbVars, remoteVersion, idx, tmp, zip, etag, lastModified,
                   res, error, dir, fi, fileHeaders>>

\* CREATE SCHEMA ${tmpSchema}
createSchema(r) ==
    /\ pc[r] = "createSchema"
    /\ LET name == TmpSchemaName(Dataset(r), tmpSchema[r])
       IN /\ name \notin Pending(r)
          /\ IF name \in Names(View(r))
             THEN /\ LoadCatch(r, OtherError)
                  /\ UNCHANGED tx
             ELSE /\ tx' = [tx EXCEPT ![r].put = @ \cup {[name |-> name, tables |-> {}]}]
                  /\ pc' = [pc EXCEPT ![r] = "open"]
                  /\ UNCHANGED <<error, dir, fi, fileHeaders>>
    /\ UNCHANGED <<endpoints, dbVars, remoteVersion, idx, tmp, zip, etag, lastModified,
                   res, ret, tmpSchema, stage>>

\* A second loop that copies nothing.
Pass2Skipped(r, files, i) ==
    /\ fi' = [fi EXCEPT ![r] = Len(files) + 1]
    /\ pc' = [pc EXCEPT ![r] = "commitLoad"]

\* Control in the second loop from entry i on: the next named entry's COPY,
\* or COMMIT after the last.
Pass2From(r, files, i) ==
    LET j == NextEntry(files, i)
    IN /\ fi' = [fi EXCEPT ![r] = j]
       /\ pc' = [pc EXCEPT ![r] = IF j <= Len(files) THEN "copy" ELSE "commitLoad"]

\* Control in the first loop from entry i on: the next named entry's header
\* read and CREATE TABLE, or the second loop after the last.
Pass1From(r, files, i) ==
    LET j == NextEntry(files, i)
    IN IF j <= Len(files)
       THEN /\ fi' = [fi EXCEPT ![r] = j]
            /\ pc' = [pc EXCEPT ![r] = "createTable"]
       ELSE Pass2From(r, files, 1)

\* const dir = await unzipper.Open.file(zipPath)
open(r) ==
    /\ pc[r] = "open"
    /\ \/ /\ dir' = [dir EXCEPT ![r] = Archive(zip[r])]
          /\ fileHeaders' = [fileHeaders EXCEPT ![r] = {}]
          /\ Pass1From(r, Archive(zip[r]), 1)
          /\ UNCHANGED error
       \/ LoadCatch(r, OtherError)
    /\ UNCHANGED <<endpoints, dbVars, remoteVersion, idx, tmp, zip, etag, lastModified,
                   res, ret, tmpSchema, tx, stage>>

\* The staging schema with table t created or replaced in it.
WithTable(s, t) ==
    [s EXCEPT !.tables = {x \in @ : x.name # t.name} \cup {t}]

\* One iteration of the first loop: const header = await new Promise(...);
\* const columns = header.split ...; CREATE TABLE ${tmpSchema}.${table.name} (...);
\* fileHeaders.set(f.path, columns).  Either await can reject.
createTable(r) ==
    /\ pc[r] = "createTable"
    /\ \/ /\ LET table == CHOOSE t \in tables : t.file = dir[r][fi[r]].path
                 columns == MatchColumns(dir[r][fi[r]].header, table.columns)
                 created == [name |-> table.name, columns |-> columns, rows |-> <<>>]
                 headers == fileHeaders[r] \cup {<<dir[r][fi[r]].path, columns>>}
             IN /\ tx' = [tx EXCEPT ![r].put =
                            (@ \ {Staging(r)}) \cup {WithTable(Staging(r), created)}]
                /\ fileHeaders' = [fileHeaders EXCEPT ![r] = headers]
                /\ Pass1From(r, dir[r], fi[r] + 1)
          /\ UNCHANGED <<error, dir>>
       \/ /\ LoadCatch(r, OtherError)
          /\ UNCHANGED tx
    /\ UNCHANGED <<endpoints, dbVars, remoteVersion, idx, tmp, zip, etag, lastModified,
                   res, ret, tmpSchema, stage>>

\* SQL's null, which is no string.
SqlNull == "NULL"

\* What COPY ... WITH (FORMAT CSV, NULL null, FORCE_NULL(...)) stores for one
\* field of a data line: an unquoted field that is the null string is null,
\* and with FORCE_NULL on the column a quoted one is too; a quoted field
\* loses its quotes.
CopyField(field, null, forceNull) ==
    LET quoted == field = "\"\""
        value == IF quoted THEN "" ELSE field
    IN IF value = null /\ (~quoted \/ forceNull) THEN SqlNull ELSE value

\* The rows COPY stores from the data lines (HEADER skips the first line):
\* NULL '' and FORCE_NULL on every column of the list.
CopyRows(lines) ==
    [i \in 1..Len(lines) |->
        [k \in 1..Len(lines[i]) |-> CopyField(lines[i][k], "", TRUE)]]

\* COPY takes the fields of a line by position: a line with more or fewer
\* fields than the column list is an error.
CopyFits(lines, cols) == \A i \in 1..Len(lines) : Len(lines[i]) = Len(cols)

\* A COPY that accepts an empty column list.
copyAnyColumns(r) ==
    /\ pc[r] = "copy"
    /\ LET table == CHOOSE t \in tables : t.file = dir[r][fi[r]].path
           cols == (CHOOSE h \in fileHeaders[r] : h[1] = dir[r][fi[r]].path)[2]
           loaded == [name |-> table.name, columns |-> cols,
                      rows |-> CopyRows(dir[r][fi[r]].lines)]
       IN /\ tx' = [tx EXCEPT ![r].put =
                      (@ \ {Staging(r)}) \cup {WithTable(Staging(r), loaded)}]
          /\ Pass2From(r, dir[r], fi[r] + 1)
    /\ UNCHANGED <<endpoints, dbVars, remoteVersion, idx, tmp, zip, etag, lastModified,
                   res, ret, error, tmpSchema, dir, fileHeaders, stage>>


\* COPY ${tmpSchema}.${table.name} (...) FROM STDIN ...; await Pipeline(stream, copyStream)
\* An empty column list makes the statement a syntax error, and a data line
\* that does not fit the column list makes the stream fail.
copy(r) ==
    /\ pc[r] = "copy"
    /\ LET table == CHOOSE t \in tables : t.file = dir[r][fi[r]].path
           cols == (CHOOSE h \in fileHeaders[r] : h[1] = dir[r][fi[r]].path)[2]
           loaded == [name |-> table.name, columns |-> cols,
                      rows |-> CopyRows(dir[r][fi[r]].lines)]
       IN \/ /\ cols # <<>>
             /\ CopyFits(dir[r][fi[r]].lines, cols)
             /\ tx' = [tx EXCEPT ![r].put =
                         (@ \ {Staging(r)}) \cup {WithTable(Staging(r), loaded)}]
             /\ Pass2From(r, dir[r], fi[r] + 1)
             /\ UNCHANGED <<error, dir, fileHeaders>>
          \/ /\ LoadCatch(r, OtherError)
             /\ UNCHANGED tx
    /\ UNCHANGED <<endpoints, dbVars, remoteVersion, idx, tmp, zip, etag, lastModified,
                   res, ret, tmpSchema, stage>>

\* await client.query("COMMIT"): the load transaction.
commitLoad(r) ==
    /\ pc[r] = "commitLoad"
    /\ schemas' = Commit(schemas, tx[r])
    /\ tx' = [tx EXCEPT ![r] = NoTx]
    /\ pc' = [pc EXCEPT ![r] = "beginPromote"]
    /\ stage' = [stage EXCEPT ![r] = "promote"]
    /\ UNCHANGED <<endpoints, advisoryLocks, metaTable, feed_meta, remoteVersion, idx,
                   tmp, zip, etag, lastModified, res, ret, error,
                   tmpSchema, dir, fi, fileHeaders>>

\* await client.query("BEGIN"): the promote transaction.
beginPromote(r) ==
    /\ pc[r] = "beginPromote"
    /\ tx' = [tx EXCEPT ![r] = [NoTx EXCEPT !.open = TRUE]]
    /\ pc' = [pc EXCEPT ![r] = "dropLive"]
    /\ UNCHANGED <<endpoints, dbVars, remoteVersion, idx, tmp, zip, etag, lastModified,
                   res, ret, error, tmpSchema, dir, fi, fileHeaders, stage>>

\* DROP SCHEMA IF EXISTS ${this.gtfsSchema} CASCADE
dropLive(r) ==
    /\ pc[r] = "dropLive"
    /\ gtfsSchema(Dataset(r)) \notin Dropping(r)
    /\ \/ /\ tx' = [tx EXCEPT ![r].drop =
                      @ \cup ({gtfsSchema(Dataset(r))} \cap Names(View(r)))]
          /\ pc' = [pc EXCEPT ![r] = "renameTmp"]
          /\ UNCHANGED <<error, dir, fi, fileHeaders>>
       \/ /\ LoadCatch(r, OtherError)
          /\ UNCHANGED tx
    /\ UNCHANGED <<endpoints, dbVars, remoteVersion, idx, tmp, zip, etag, lastModified,
                   res, ret, tmpSchema, stage>>

\* ALTER SCHEMA ${tmpSchema} RENAME TO ${this.gtfsSchema}
renameTmp(r) ==
    /\ pc[r] = "renameTmp"
    /\ LET from == TmpSchemaName(Dataset(r), tmpSchema[r])
           to == gtfsSchema(Dataset(r))
       IN /\ to \notin Pending(r)
          /\ \/ /\ from \in Names(View(r))
                /\ to \notin Names(View(r))
                /\ LET s == CHOOSE x \in View(r) : x.name = from
                   IN tx' = [tx EXCEPT ![r].drop = @ \cup {from},
                                       ![r].put = @ \cup {[s EXCEPT !.name = to]}]
                /\ pc' = [pc EXCEPT ![r] = "commitPromote"]
                /\ UNCHANGED <<error, dir, fi, fileHeaders>>
             \/ /\ LoadCatch(r, OtherError)
                /\ UNCHANGED tx
    /\ UNCHANGED <<endpoints, dbVars, remoteVersion, idx, tmp, zip, etag, lastModified,
                   res, ret, tmpSchema, stage>>

\* await client.query("COMMIT"): the promote transaction; then the finally block.
commitPromote(r) ==
    /\ pc[r] = "commitPromote"
    /\ schemas' = Commit(schemas, tx[r])
    /\ tx' = [tx EXCEPT ![r] = NoTx]
    /\ pc' = [pc EXCEPT ![r] = "finally"]
    /\ UNCHANGED <<endpoints, advisoryLocks, metaTable, feed_meta, remoteVersion, idx,
                   tmp, zip, etag, lastModified, res, ret, error,
                   tmpSchema, dir, fi, fileHeaders, stage>>

\* A catch block whose statement keeps the transaction's work.
rollbackKeepsWork(r) ==
    /\ pc[r] = "rollback"
    /\ schemas' = Commit(schemas, tx[r])
    /\ tx' = [tx EXCEPT ![r] = NoTx]
    /\ pc' = [pc EXCEPT ![r] = "finally"]
    /\ UNCHANGED <<endpoints, advisoryLocks, metaTable, feed_meta, remoteVersion, idx,
                   tmp, zip, etag, lastModified, res, ret, error,
                   tmpSchema, dir, fi, fileHeaders, stage>>

\* catch (e) { await client.query("ROLLBACK"); throw e; }
\* Whether or not the statement itself succeeds, the transaction is gone.
rollback(r) ==
    /\ pc[r] = "rollback"
    /\ tx' = [tx EXCEPT ![r] = NoTx]
    /\ pc' = [pc EXCEPT ![r] = "finally"]
    /\ \/ UNCHANGED error
       \/ error' = [error EXCEPT ![r] = OtherError]
    /\ UNCHANGED <<endpoints, dbVars, remoteVersion, idx, tmp, zip, etag, lastModified,
                   res, ret, tmpSchema, dir, fi, fileHeaders, stage>>

\* A finally block that leaves the directory in place.
finallyKeepsDir(r) ==
    /\ pc[r] = "finally"
    /\ dir' = [dir EXCEPT ![r] = <<>>]
    /\ fi' = [fi EXCEPT ![r] = 0]
    /\ fileHeaders' = [fileHeaders EXCEPT ![r] = {}]
    /\ IF error[r] = "none"
       THEN /\ pc' = [pc EXCEPT ![r] = "loaded"]
            /\ ret' = [ret EXCEPT ![r] = "void"]
       ELSE /\ pc' = [pc EXCEPT ![r] = "loadThrew"]
            /\ ret' = [ret EXCEPT ![r] = "error"]
    /\ UNCHANGED <<endpoints, dbVars, remoteVersion, idx, etag, lastModified,
                   res, error, tmpSchema, tx, stage, tmp, zip>>


\* finally { await fs.rm(path.dirname(zipPath), { recursive: true, force: true }); }
finally(r) ==
    /\ pc[r] = "finally"
    /\ tmp' = [tmp EXCEPT ![r] = "none"]
    /\ zip' = [zip EXCEPT ![r] = 0]
    /\ dir' = [dir EXCEPT ![r] = <<>>]
    /\ fi' = [fi EXCEPT ![r] = 0]
    /\ fileHeaders' = [fileHeaders EXCEPT ![r] = {}]
    /\ IF error[r] = "none"
       THEN /\ pc' = [pc EXCEPT ![r] = "loaded"]
            /\ ret' = [ret EXCEPT ![r] = "void"]
       ELSE /\ pc' = [pc EXCEPT ![r] = "loadThrew"]
            /\ ret' = [ret EXCEPT ![r] = "error"]
    /\ UNCHANGED <<endpoints, dbVars, remoteVersion, idx, etag, lastModified,
                   res, error, tmpSchema, tx, stage>>

\* console.log(`GTFS tables loaded ...`); GtfsClient.release()
tablesLoaded(r) ==
    /\ pc[r] = "loaded"
    /\ pc' = [pc EXCEPT ![r] = "loop"]
    /\ idx' = [idx EXCEPT ![r] = @ + 1]
    /\ ret' = [ret EXCEPT ![r] = "none"]
    /\ tmpSchema' = [tmpSchema EXCEPT ![r] = 0]
    /\ stage' = [stage EXCEPT ![r] = "main"]
    /\ UNCHANGED <<endpoints, dbVars, remoteVersion, tmp, zip, etag, lastModified,
                   res, error, tx, dir, fi, fileHeaders>>

Next ==
    \/ \E r \in Runs :
         \/ NextDataset(r) \/ ProcessExit(r) \/ UnhandledRejection(r)
         \/ acquireLock(r) \/ createMeta(r) \/ mkdtemp(r) \/ selectMeta(r)
         \/ fetch(r) \/ unchangedRelease(r) \/ unchangedRm(r)
         \/ pipeline(r) \/ upsertMeta(r) \/ downloadedRelease(r) \/ catchRelease(r)
         \/ upToDate(r)
         \/ begin(r) \/ createSchema(r) \/ open(r) \/ createTable(r)
         \/ copy(r) \/ commitLoad(r) \/ beginPromote(r) \/ dropLive(r) \/ renameTmp(r)
         \/ commitPromote(r) \/ rollback(r) \/ finally(r) \/ tablesLoaded(r)
    \/ \E d \in Datasets : Publish(d)

Spec == Init /\ [][Next]_vars

\* ================================================================= claims

\* The part of downloadGtfs the lock is meant to protect: from the grant of
\* the lock to the statement that releases it.
Protected ==
    {"createMeta", "mkdtemp", "selectMeta", "fetch", "unchangedRelease",
     "pipeline", "upsertMeta", "downloadedRelease", "catch"}

HoldersOf(key) == {l \in advisoryLocks : l[1] = key}

HeldByOther(r) ==
    \E l \in HoldersOf(LockKey(Dataset(r))) : l[2][1] # r

\* r takes a step of its own.
Steps(r) == pc'[r] # pc[r]

\* C1: at most one session holds a dataset's advisory lock, no two runs are
\* inside the lock-protected part of downloadGtfs for the same dataset, and
\* an acquisition attempted while another session holds the key is never
\* made to wait: it can be taken at once, is not granted, and leaves the call
\* with the 'another update is running' error.
C1_Exclusive ==
    /\ \A d \in Datasets : Cardinality(HoldersOf(LockKey(d))) <= 1
    /\ \A r, q \in Runs :
         (r # q /\ pc[r] \in Protected /\ pc[q] \in Protected) => Dataset(r) # Dataset(q)
    /\ \A r \in Runs : pc[r] = "acquireLock" => ENABLED acquireLock(r)

C1_ContendedFails ==
    \A r \in Runs :
        (pc[r] = "acquireLock" /\ HeldByOther(r) /\ Steps(r)) =>
            /\ pc'[r] = "threw"
            /\ error'[r] = LockError
            /\ advisoryLocks' = advisoryLocks

C1_LockMutualExclusion == [][C1_Exclusive' /\ C1_ContendedFails]_vars

\* C1 witness: a run has been refused the lock that another run holds.
C1_Witness ==
    \E r, q \in Runs :
        /\ r # q
        /\ pc[r] = "threw" /\ error[r] = LockError
        /\ pc[q] \in Protected /\ Holds(q, Dataset(q)) /\ Dataset(q) = Dataset(r)

\* C2: whenever downloadGtfs has handed control back to its caller, by
\* returning or by throwing, the calling session no longer holds the lock.
C2_LockReleasedOnExit ==
    \A r \in Runs : pc[r] \in {"returned", "threw"} => ~Holds(r, Dataset(r))

\* The tables a complete load of version v's archive yields: one per entry
\* the Table Specification names, with the matched columns and v's rows.
Snapshot(v) ==
    {[name |-> (CHOOSE t \in tables : t.file = Archive(v)[i].path).name,
      columns |-> MatchColumns(Archive(v)[i].header,
                               (CHOOSE t \in tables : t.file = Archive(v)[i].path).columns),
      rows |-> CopyRows(Archive(v)[i].lines)] :
        i \in {j \in 1..Len(Archive(v)) : Find(Archive(v)[j].path) # {}}}

\* The committed schemas that answer to the live name of dataset d.
LiveOf(d) == {s \in schemas : s.name = gtfsSchema(d)}

StagingName(r) == TmpSchemaName(Dataset(r), tmpSchema[r])

PromoteFailed(r) ==
    stage[r] = "promote" /\ pc[r] \in {"rollback", "finally", "loadThrew"}
        /\ error[r] # "none"

\* C3: the commit of the promote transaction leaves under the live name
\* exactly the tables of the load just committed (the staging schema, renamed)
\* and nothing of the previous live schema; every other step of the promote
\* stage, the failure path included, leaves the committed schemas as they
\* are, and after a failed promote the committed staging schema is still
\* there and the run only throws: it does not go back to load or promote.
C3_Step ==
    \A r \in Runs :
        /\ (pc[r] = "commitPromote" /\ Steps(r)) =>
              /\ LiveOf(Dataset(r))' =
                   {[name |-> gtfsSchema(Dataset(r)), tables |-> Snapshot(zip[r])]}
              /\ StagingName(r) \notin Names(schemas')
        /\ (stage[r] = "promote" /\ pc[r] # "commitPromote" /\ Steps(r)) =>
              schemas' = schemas
        /\ (PromoteFailed(r) /\ Steps(r)) =>
              pc'[r] \in {"finally", "loadThrew", "dead"}
        /\ PromoteFailed(r)' =>
              \E s \in schemas' :
                  /\ s.name = StagingName(r)'
                  /\ \E v \in Versions : s.tables = Snapshot(v)

C3_PromotionAtomicity == [][C3_Step]_vars

\* C3 witness: a promote has failed over a live schema that an earlier promote
\* put there; the live schema and the orphaned staging schema both exist.
C3_Witness ==
    \E r \in Runs :
        /\ pc[r] = "loadThrew" /\ PromoteFailed(r)
        /\ LiveOf(Dataset(r)) # {}
        /\ StagingName(r) \in Names(schemas)

\* C4: what any session reads outside a transaction is the committed state,
\* and in it a dataset's live name is absent or names one schema that holds
\* the complete table set of one version's load.
C4_LiveAbsentOrComplete ==
    \A d \in Datasets :
        /\ Cardinality(LiveOf(d)) <= 1
        /\ \A s \in LiveOf(d) : \E v \in Versions : s.tables = Snapshot(v)

\* C4 witness: a live schema is committed while another run is in the middle
\* of its own load of the same dataset, with tables created but not yet filled.
C4_Witness ==
    \E r \in Runs :
        /\ pc[r] = "copy"
        /\ LiveOf(Dataset(r)) # {}
        /\ \E s \in tx[r].put : \E t \in s.tables : t.rows = <<>>

\* C5: while a run is in the load transaction no step of it changes the
\* committed schemas, so the live schema is as it was; a failure there ends
\* in the rollback, after which the transaction (the staging schema and its
\* tables) is gone, and loadTables throws the error to its caller.
LoadFailed(r) ==
    stage[r] = "load" /\ pc[r] \in {"finally", "loadThrew"}

C5_Step ==
    \A r \in Runs :
        /\ (stage[r] = "load" /\ pc[r] # "commitLoad" /\ Steps(r)) =>
              schemas' = schemas
        /\ (stage[r] = "load" /\ pc[r] = "rollback" /\ Steps(r)) =>
              pc'[r] = "finally"
        /\ LoadFailed(r)' =>
              /\ tx'[r] = NoTx
              /\ error'[r] # "none"
              /\ pc'[r] = "loadThrew" => ret'[r] = "error"

C5_LoadFailureRollsBack == [][C5_Step]_vars

\* C5 witness: a load has failed after creating tables, with a live schema of
\* an earlier load in place.
C5_Witness ==
    \E r \in Runs :
        /\ pc[r] = "loadThrew" /\ LoadFailed(r)
        /\ LiveOf(Dataset(r)) # {}

\* C6 as stated: with no ledger record for the dataset the call is never on
\* the not-modified path, whatever the remote answers.  (The lock is held at
\* this point, so the ledger is as the call read it.)
C6_NoRecordNeverUnchanged ==
    \A r \in Runs : pc[r] = "unchangedRelease" => RowsOf(Dataset(r)) # {}

\* C6 as amended: with no ledger record for the dataset and a status other
\* than 304 the call is never on the not-modified path: absent cached values
\* (undefined) never equal absent or present response headers.
C6_NoRecordUnchangedOnlyBy304 ==
    \A r \in Runs :
        (pc[r] = "unchangedRelease" /\ res[r].status # 304) => RowsOf(Dataset(r)) # {}

\* C6 witness: no record, the remote answers 200 without either header, and
\* the call goes on to download.
C6_Witness ==
    \E r \in Runs :
        /\ pc[r] = "pipeline"
        /\ RowsOf(Dataset(r)) = {}
        /\ res[r].newEtag = Null /\ res[r].newLastModified = Null

\* The call is downloading the archive anew; the lock is held, so the ledger
\* is still as the call read it.
Redownloading(r) == pc[r] \in {"pipeline", "upsertMeta"}

Identical(row, response) ==
    row.etag = response.newEtag /\ row.last_modified = response.newLastModified

\* C7 as stated: a call that finds the record of an earlier download and a
\* response with the same tag and timestamp, both absent included, returns
\* null: whatever the remote answers to a call about to fetch, an identical
\* response is classified not-modified, no call is downloading the archive
\* anew against an identical record, and a run whose call returned null
\* starts no load.
C7_IdenticalIsUnchanged ==
    \A r \in Runs :
        /\ pc[r] = "fetch" =>
              \A row \in RowsOf(Dataset(r)) : \A response \in Responses(Dataset(r)) :
                  Identical(row, response) =>
                      Classify(response, etag[r], lastModified[r]) = "unchanged"
        /\ Redownloading(r) => \A row \in RowsOf(Dataset(r)) : ~Identical(row, res[r])
        /\ (pc[r] = "returned" /\ ret[r] = "null") => ~ENABLED begin(r)

\* C7 as amended: when the remote presents at least one of the two headers,
\* a call that finds the record of an earlier download and a response with
\* the same tag and timestamp neither downloads nor fails but returns null,
\* and a run whose call returned null starts no load.
C7_IdenticalPresentIsUnchanged ==
    \A r \in Runs :
        /\ pc[r] = "fetch" =>
              \A row \in RowsOf(Dataset(r)) : \A response \in Responses(Dataset(r)) :
                  (/\ Identical(row, response)
                   /\ (response.newEtag # Null \/ response.newLastModified # Null)) =>
                      Classify(response, etag[r], lastModified[r]) = "unchanged"
        /\ Redownloading(r) =>
              \A row \in RowsOf(Dataset(r)) :
                  ~(/\ Identical(row, res[r])
                    /\ (res[r].newEtag # Null \/ res[r].newLastModified # Null))
        /\ (pc[r] = "returned" /\ ret[r] = "null") => ~ENABLED begin(r)

\* C7 witness: a call answered 200 with the recorded timestamp and no tag is
\* on the not-modified path.
C7_Witness ==
    \E r \in Runs :
        /\ pc[r] = "unchangedRelease"
        /\ res[r].status = 200
        /\ res[r].newEtag = Null /\ res[r].newLastModified # Null
        /\ \E row \in RowsOf(Dataset(r)) : Identical(row, res[r])

\* C8: the call that returns a path leaves, as it returns, one ledger record
\* for its dataset, holding the tag and timestamp of its response; no step
\* makes a second record for a dataset or removes a dataset's record.
C8_Step ==
    /\ \A r \in Runs :
          (pc[r] = "downloadedRelease" /\ Steps(r)) =>
              /\ pc'[r] = "returned" /\ ret'[r] = "zipPath"
              /\ RowsOf(Dataset(r))' =
                   {[dataset |-> Dataset(r), etag |-> res[r].newEtag,
                     last_modified |-> res[r].newLastModified]}
    /\ \A r \in Runs :
          (pc'[r] = "returned" /\ ret'[r] = "zipPath" /\ Steps(r)) =>
              pc[r] = "downloadedRelease"
    /\ \A d \in Datasets :
          /\ Cardinality(RowsOf(d)') <= 1
          /\ RowsOf(d) # {} => RowsOf(d)' # {}

C8_LedgerReflectsDownload == [][C8_Step]_vars

\* C8 witness: a second download of the dataset has returned (the other run
\* downloaded before) and the ledger holds one record.
C8_Witness ==
    \E r, q \in Runs :
        /\ r # q
        /\ pc[r] = "returned" /\ ret[r] = "zipPath"
        /\ stage[q] \in {"load", "promote"}
        /\ Cardinality(RowsOf(Dataset(r))) = 1

\* The claim's test: status 304, or the response's tag is the cached tag, or
\* the response's timestamp is the cached timestamp.
ClassifiedUnchanged(response, e, lm) ==
    \/ response.status = 304
    \/ response.newEtag # Null /\ response.newEtag = e
    \/ response.newLastModified # Null /\ response.newLastModified = lm

UnchangedPath ==
    {"acquireLock", "createMeta", "mkdtemp", "selectMeta", "fetch",
     "unchangedRelease", "unchangedRm"}

\* C9: a response that meets the test puts the call on the not-modified
\* path; from its start to the end of that path no step of the call writes
\* the ledger or a schema or opens a transaction or puts archive bytes on
\* disk; the path ends by returning null with the temporary directory
\* removed, and null is returned in no other way.
C9_Step ==
    \A r \in Runs :
        /\ pc[r] = "fetch" =>
              \A response \in Responses(Dataset(r)) :
                  ClassifiedUnchanged(response, etag[r], lastModified[r]) =>
                      Classify(response, etag[r], lastModified[r]) = "unchanged"
        /\ (/\ pc[r] = "fetch" /\ Steps(r) /\ res'[r] # NoRes
            /\ ClassifiedUnchanged(res'[r], etag[r], lastModified[r])) =>
              pc'[r] = "unchangedRelease"
        /\ (pc[r] \in UnchangedPath /\ Steps(r)) =>
              /\ feed_meta' = feed_meta
              /\ schemas' = schemas
              /\ tx' = tx
              /\ zip'[r] = 0
              /\ tmp'[r] \in {"none", "dir"}
        /\ (pc[r] = "unchangedRelease" /\ Steps(r)) => pc'[r] = "unchangedRm"
        /\ (pc[r] = "unchangedRm" /\ Steps(r)) =>
              pc'[r] = "returned" /\ ret'[r] = "null" /\ tmp'[r] = "none"
        /\ (pc'[r] = "returned" /\ ret'[r] = "null" /\ Steps(r)) => pc[r] = "unchangedRm"

C9_UnchangedChangesNothing == [][C9_Step]_vars

\* C9 witness: a call has returned null, its directory gone, for a dataset
\* that has a ledger record and a live schema.
C9_Witness ==
    \E r \in Runs :
        /\ pc[r] = "returned" /\ ret[r] = "null" /\ tmp[r] = "none"
        /\ RowsOf(Dataset(r)) # {}
        /\ LiveOf(Dataset(r)) # {}

\* The call ended in a hard failure of the fetch: the status or the missing
\* body (DownloadError), the stream to disk (a partial file was written) or
\* the ledger write (the whole file was written).
HardFailure(r) ==
    pc[r] = "threw" /\ (error[r] = DownloadError \/ tmp[r] \in {"partial", "zip"})

\* C10: when downloadGtfs has thrown a hard failure of the fetch, no temporary
\* directory and no partial archive of the call is left.
C10_NoTmpAfterFailure ==
    \A r \in Runs : HardFailure(r) => tmp[r] = "none"

\* The run's call was refused the lock and has thrown the contention error.
Refused(r) == pc[r] = "threw" /\ error[r] = LockError

\* C11: a run that asks for the lock while another session holds it takes no
\* later step of the pipeline: the refusing step and every step of the run
\* after it leave the ledger, its table, the schemas and every transaction
\* as they are; the run has no temporary directory, no archive, no response,
\* no value read from the ledger and no staging schema name; and the run
\* ends, by the contention error, without returning to the loop.
C11_Step ==
    \A r \in Runs :
        /\ (pc[r] = "acquireLock" /\ HeldByOther(r) /\ Steps(r)) => Refused(r)'
        /\ ((pc[r] = "acquireLock" /\ HeldByOther(r)) \/ Refused(r)) /\ Steps(r) =>
              /\ feed_meta' = feed_meta /\ metaTable' = metaTable
              /\ schemas' = schemas /\ tx' = tx
              /\ advisoryLocks' \subseteq advisoryLocks
        /\ Refused(r)' =>
              /\ tmp'[r] = "none" /\ zip'[r] = 0
              /\ res'[r] = NoRes
              /\ etag'[r] = Undefined /\ lastModified'[r] = Undefined
              /\ tmpSchema'[r] = 0 /\ tx'[r] = NoTx
              /\ ~Holds(r, Dataset(r))'
        /\ (Refused(r) /\ Steps(r)) => pc'[r] = "dead"

C11_ContendedDoesNothing == [][C11_Step]_vars

\* C11 witness: a run has been refused while the holder of the lock is
\* streaming the archive to disk.
C11_Witness ==
    \E r, q \in Runs :
        /\ r # q
        /\ Refused(r)
        /\ pc[q] = "pipeline" /\ Dataset(q) = Dataset(r)

\* The archive of version v has an entry the Table Specification names whose
\* header shares no column name with the entry's declared columns.
Degenerate(v) ==
    \E i \in 1..Len(Archive(v)) :
        /\ Find(Archive(v)[i].path) # {}
        /\ \A t \in Find(Archive(v)[i].path) :
              MatchColumns(Archive(v)[i].header, t.columns) = <<>>

\* The run is loading an archive with such an entry.
LoadingDegenerate(r) == stage[r] \in {"load", "promote"} /\ zip[r] # 0 /\ Degenerate(zip[r])

\* C12: a load of an archive with a zero-overlap entry never reaches the
\* commit of the load transaction or the promote stage; no step of it changes
\* the committed schemas, so the live schema is as the prior run left it; the
\* COPY of that entry fails into the rollback; and the load ends by throwing,
\* its transaction (staging schema and tables) gone.
C12_Step ==
    \A r \in Runs :
        LoadingDegenerate(r) =>
            /\ stage[r] = "load"
            /\ pc[r] \in {"createSchema", "open", "createTable", "copy", "rollback", "finally"}
            /\ Steps(r) =>
                  /\ schemas' = schemas
                  /\ pc[r] = "rollback" => pc'[r] = "finally" /\ tx'[r] = NoTx
                  /\ pc[r] = "finally" =>
                        /\ pc'[r] = "loadThrew" /\ ret'[r] = "error"
                        /\ error'[r] # "none" /\ tx'[r] = NoTx
                  /\ (/\ pc[r] = "copy"
                      /\ \E h \in fileHeaders[r] :
                            h[1] = dir[r][fi[r]].path /\ h[2] = <<>>) =>
                        pc'[r] = "rollback"

C12_DegenerateHeaderFailsLoad == [][C12_Step]_vars

\* C12 witness: the COPY of the zero-overlap entry has failed, after the COPY
\* of an earlier entry had succeeded, and the run is about to roll back, while
\* the live schema of a prior run is in place.
C12_Witness ==
    \E r \in Runs :
        /\ LoadingDegenerate(r)
        /\ pc[r] = "rollback"
        /\ \E s \in tx[r].put :
              /\ \E t \in s.tables : t.columns = <<>>
              /\ \E t \in s.tables : t.rows # <<>>
        /\ LiveOf(Dataset(r)) # {}

\* C13: no value stored in a table of a live schema is SQL null: every field
\* of the archives' data lines is present, some of them empty, and an empty
\* field is to be stored as the empty string.
C13_EmptyFieldsStayEmpty ==
    \A d \in Datasets : \A s \in LiveOf(d) : \A t \in s.tables :
        \A i \in 1..Len(t.rows) : \A k \in 1..Len(t.rows[i]) :
            t.rows[i][k] # SqlNull

\* The stage changes a run goes through for one dataset.
StageOrder ==
    {<<"main", "fetch">>, <<"fetch", "load">>, <<"load", "promote">>,
     <<"fetch", "main">>, <<"promote", "main">>}

\* C14: a run changes stage only along fetch -> load -> promote; it enters
\* the load stage, opening the load transaction, only from a downloadGtfs
\* that returned a path, with the archive on disk; it enters the promote
\* stage only by the commit of the load transaction, which puts the staging
\* schema among the committed schemas; a transaction is opened only at those
\* two points; and the promote transaction is opened over a committed
\* staging schema.
C14_Step ==
    \A r \in Runs :
        /\ stage'[r] # stage[r] => <<stage[r], stage'[r]>> \in StageOrder
        /\ (stage'[r] = "load" /\ stage[r] # "load") =>
              /\ pc[r] = "returned" /\ ret[r] = "zipPath"
              /\ tmp[r] = "zip" /\ zip[r] # 0
              /\ tx'[r].open /\ ~tx[r].open
        /\ (stage'[r] = "promote" /\ stage[r] # "promote") =>
              /\ pc[r] = "commitLoad" /\ tx[r].open /\ ~tx'[r].open
              /\ StagingName(r) \in Names(schemas') \ Names(schemas)
        /\ (tx'[r].open /\ ~tx[r].open) =>
              \/ stage[r] = "fetch" /\ stage'[r] = "load"
              \/ stage[r] = "promote" /\ pc[r] = "beginPromote"
        /\ (pc[r] = "beginPromote" /\ Steps(r)) =>
              /\ StagingName(r) \in Names(schemas)
              /\ pc'[r] = "dropLive"
        /\ tx[r].open => stage[r] \in {"load", "promote"}

C14_StageOrder == [][C14_Step]_vars

\* C14 witness: a run is in its promote transaction, its load committed.
C14_Witness ==
    \E r \in Runs :
        /\ stage[r] = "promote" /\ pc[r] = "renameTmp" /\ tx[r].open
        /\ StagingName(r) \in Names(schemas)

\* The run is inside loadTables for its dataset.
InLoadTables(r) == stage[r] \in {"load", "promote"}

\* C15: a run that is in the load or promote stage does not hold its
\* dataset's lock; and a run that asks for the lock of a dataset while the
\* other runs are inside loadTables for it (or between datasets) is granted
\* the lock and goes on with its own fetch.
C15_Step ==
    /\ \A r \in Runs : InLoadTables(r) => ~Holds(r, Dataset(r))
    /\ \A q \in Runs :
          (/\ pc[q] = "acquireLock" /\ Steps(q)
           /\ \E r \in Runs \ {q} : InLoadTables(r) /\ Dataset(r) = Dataset(q)
           /\ \A r \in Runs \ {q} : InLoadTables(r) \/ stage[r] = "main") =>
              /\ pc'[q] = "createMeta"
              /\ Holds(q, Dataset(q))'

C15_LockCoversFetchOnly == [][C15_Step]_vars

\* C15 witness: one run is copying into its staging schema while another
\* run, holding the lock of the same dataset, is streaming its own download.
C15_Witness ==
    \E r, q \in Runs :
        /\ r # q
        /\ pc[r] = "copy" /\ stage[r] = "load"
        /\ pc[q] = "pipeline" /\ Holds(q, Dataset(q))
        /\ Dataset(r) = Dataset(q)

\* loadTables has handed control back to main, by returning or by throwing.
LoadTablesEnded(r) == pc[r] \in {"loaded", "loadThrew"}

\* C16: loadTables ends only through its finally block, whatever happened
\* before (both commits, a failed load rolled back, a failed promote, a
\* failed ROLLBACK), and when it has ended the temporary directory and the
\* archive in it are gone.
C16_Step ==
    \A r \in Runs :
        /\ (LoadTablesEnded(r)' /\ Steps(r)) => pc[r] = "finally"
        /\ (pc[r] \in {"commitPromote", "rollback"} /\ Steps(r)) => pc'[r] = "finally"
        /\ (pc[r] = "finally" /\ Steps(r)) => LoadTablesEnded(r)'
        /\ LoadTablesEnded(r)' => tmp'[r] = "none" /\ zip'[r] = 0
        /\ (InLoadTables(r) /\ ~LoadTablesEnded(r) /\ pc[r] \notin {"finally", "dead"}) =>
              tmp[r] = "zip"

C16_TmpRemovedAfterLoad == [][C16_Step]_vars

\* C16 witness: one run's loadTables has returned after its promote and
\* another's has thrown out of the promote stage; neither has a directory.
C16_Witness ==
    \E r, q \in Runs :
        /\ pc[r] = "loaded" /\ tmp[r] = "none"
        /\ pc[q] = "loadThrew" /\ stage[q] = "promote" /\ tmp[q] = "none"

\* A run over two datasets of Endpoints.ts.  The other invocations have come
\* and gone before it with nothing to do: each created the ledger table, was
\* answered 304 for both datasets and exited.
InitSeveral ==
    /\ endpoints = <<"sydneycomplete", "lightrailcbdandsoutheast">>
    /\ advisoryLocks = {}
    /\ metaTable = TRUE
    /\ feed_meta = {}
    /\ schemas = {}
    /\ remoteVersion = [d \in Datasets |-> 1]
    /\ pc = [r \in Runs |-> IF r = 1 THEN "loop" ELSE "exited"]
    /\ idx = [r \in Runs |-> IF r = 1 THEN 1 ELSE 3]
    /\ tmp = [r \in Runs |-> "none"]
    /\ zip = [r \in Runs |-> 0]
    /\ etag = [r \in Runs |-> Undefined]
    /\ lastModified = [r \in Runs |-> Undefined]
    /\ res = [r \in Runs |-> NoRes]
    /\ ret = [r \in Runs |-> "none"]
    /\ stage = [r \in Runs |-> "main"]
    /\ error = [r \in Runs |-> "none"]
    /\ tmpSchema = [r \in Runs |-> 0]
    /\ tx = [r \in Runs |-> NoTx]
    /\ dir = [r \in Runs |-> <<>>]
    /\ fi = [r \in Runs |-> 0]
    /\ fileHeaders = [r \in Runs |-> {}]

SpecSeveral == InitSeveral /\ [][Next]_vars

\* The run's current dataset has failed: lock contention, a hard failure of
\* the fetch, or an error thrown by loadTables (load or promote).
DatasetFailed(r) == Refused(r) \/ HardFailure(r) \/ pc[r] = "loadThrew"

\* C17: a run whose dataset has failed, other datasets being left in the
\* list, goes on: its next step takes it back to the loop, at the dataset
\* after the failed one.
C17_Step ==
    \A r \in Runs :
        (DatasetFailed(r) /\ idx[r] < Len(endpoints) /\ Steps(r)) =>
            pc'[r] = "loop" /\ idx'[r] = idx[r] + 1

C17_LaterDatasetsProcessed == [][C17_Step]_vars

\* The run died of an error thrown by loadTables, after its download had
\* written the ledger.
DiedInLoadTables(r) == pc[r] = "dead" /\ InLoadTables(r)

\* C18: when every earlier run downloaded the dataset and then failed to load
\* or promote it, the next run, about to fetch from a remote that answers
\* 200 with the archive under the tag and timestamp those downloads recorded,
\* does not classify the feed as unchanged: it downloads the archive again.
C18_FailedLoadIsRetried ==
    \A r \in Runs :
        (/\ pc[r] = "fetch"
         /\ \A q \in Runs \ {r} : DiedInLoadTables(q)) =>
            \A row \in RowsOf(Dataset(r)) : \A response \in Responses(Dataset(r)) :
                (/\ Identical(row, response)
                 /\ Ok(response.status) /\ response.body) =>
                    Classify(response, etag[r], lastModified[r]) = "download"

\* C19: the commit of a promote never replaces the live snapshot of a newer
\* version by the snapshot of an older one (the remote's versions come in
\* order, so the older version is the one downloaded first).
C19_Step ==
    \A r \in Runs :
        (pc[r] = "commitPromote" /\ Steps(r)) =>
            \A s \in LiveOf(Dataset(r)) : \A v \in Versions :
                s.tables = Snapshot(v) => v <= zip[r]

C19_PromotionMonotone == [][C19_Step]_vars

\* The part of a call from the grant of the lock up to the ledger write.
BeforeLedgerWrite ==
    {"createMeta", "mkdtemp", "selectMeta", "fetch", "pipeline",
     "unchangedRelease", "catch"}

\* C20: the ledger changes only by the step of a run that is at the ledger
\* write, holds its dataset's lock and has the whole body on disk, and only
\* in that dataset's record; while a run is in a call before that point, or
\* in the catch block of a failed one, no step of any run changes the record
\* of its dataset; and a step that takes a call to its catch block writes
\* nothing.
C20_Step ==
    /\ feed_meta' # feed_meta =>
          \E r \in Runs :
              /\ pc[r] = "upsertMeta" /\ pc'[r] = "downloadedRelease"
              /\ Holds(r, Dataset(r))
              /\ tmp[r] = "zip" /\ zip[r] = res[r].version /\ zip[r] # 0
              /\ \A d \in Datasets \ {Dataset(r)} : RowsOf(d)' = RowsOf(d)
    /\ \A r \in Runs :
          /\ pc[r] \in BeforeLedgerWrite => RowsOf(Dataset(r))' = RowsOf(Dataset(r))
          /\ (pc'[r] \in {"catch", "threw"} /\ Steps(r)) => feed_meta' = feed_meta

C20_LedgerWrittenUnderLockAfterBody == [][C20_Step]_vars

\* C20 witness: the stream of a download has failed part-way, the call is in
\* its catch block, and the record an earlier download left is in the ledger.
C20_Witness ==
    \E r \in Runs :
        /\ pc[r] = "catch" /\ tmp[r] = "partial"
        /\ RowsOf(Dataset(r)) # {}

====
